---- MODULE Spec2Model ----
(***************************************************************************)
(* A model of lemon-graph's single-step execution primitive,               *)
(* ExecutionStep::execute (crates/lemon-graph/src/execution/step.rs), and  *)
(* of the node implementations it invokes (the identity nodes of the       *)
(* step's tests, and LlmWeight of crates/lemon-llm/src/lib.rs).            *)
(*                                                                         *)
(* The graph is a petgraph graph: a vector of node weights addressed by    *)
(* NodeIndex and a list of edges.  `edges` is kept in the order in which   *)
(* edges_directed enumerates them; Init draws every order of every edge    *)
(* set of a family, so every insertion order is covered.                   *)
(*                                                                         *)
(* One call of execute is a chain of actions, one per phase of the code    *)
(* (Execute, ResolveInput, Invoke, Await, WriteOutputs, NextSteps).        *)
(* The graph is borrowed mutably for the whole call, so no other step can  *)
(* start before the chain has ended (pc = "idle").                         *)
(***************************************************************************)
EXTENDS Integers, Sequences, FiniteSets, TLC

VARIABLES
    nodes,      \* node weights: NodeIndex -> GraphNode
    edges,      \* the edges, in enumeration order
    pc,         \* position inside execute: idle, resolve, await, commit, next
    self,       \* self.0 of the ExecutionStep being executed
    pending,    \* (data_idx, source_idx) pairs not yet resolved
    resolved,   \* (data_idx, value) pairs resolved so far
    args,       \* the Vec<Value> handed to the node's run (None before)
    res,        \* what run returned: Ok(outputs) (None before)
    ret,        \* what execute returned: Ok(successors), Err(e) (None before)
    pre,        \* the node weights when the current step started
    runs,       \* how many times run was invoked in the current step
    backend     \* the call of backend.generate in the current step (None before)

vars ==
    <<nodes, edges, pc, self, pending, resolved, args, res, ret, pre, runs, backend>>

-----------------------------------------------------------------------------
(* Values, node weights, edge weights, results.                            *)

\* Value::String(s)
String(s) == <<"String", s>>

\* GraphNode::Store(value), GraphNode::SyncNode(node), GraphNode::AsyncNode(node)
Store(v) == <<"Store", v>>
SyncNode(n) == <<"SyncNode", n>>
AsyncNode(n) == <<"AsyncNode", n>>

\* GraphEdge::DataMap(data_idx), GraphEdge::DataFlow, GraphEdge::ExecutionFlow
DataMap(i) == <<"DataMap", i>>
DataFlow == <<"DataFlow">>
ExecutionFlow == <<"ExecutionFlow">>

IsStore(w) == w[1] = "Store"
IsDataMap(w) == w[1] = "DataMap"
IsDataFlow(w) == w[1] = "DataFlow"
IsExecutionFlow(w) == w[1] = "ExecutionFlow"

\* graph.add_edge(source, target, weight)
Edge(s, t, w) == [source |-> s, target |-> t, weight |-> w]

\* Result and Option
Ok(x) == <<"Ok", x>>
Err(e) == <<"Err", e>>
None == <<"None">>
IsOk(r) == r[1] = "Ok"
IsErr(r) == r[1] = "Err"
IsNone(r) == r[1] = "None"

\* ExecutionStepError
NoWeight == <<"NoWeight">>
InvalidWeight == <<"InvalidWeight">>
NodeError(e) == <<"NodeError", e>>

\* NodeError, as LlmWeight::run builds it
MissingInput(i) == <<"MissingInput", i>>
ConversionError(v) == <<"ConversionError", v>>
InternalError == <<"InternalError">>

-----------------------------------------------------------------------------
(* The graph container (petgraph), as execute uses it.                     *)

\* A lookup whose index wraps around instead of missing
NodeWeightWrapped(g, a) == <<"Some", g[a % Cardinality(DOMAIN g)]>>

\* graph.node_weight(a): Some(weight), or None when a is no node of the graph
NodeWeight(g, a) == IF a \in DOMAIN g THEN <<"Some", g[a]>> ELSE None

\* graph.edges_directed(a, Direction::Incoming), in enumeration order
EdgesIncoming(es, a) == SelectSeq(es, LAMBDA e : e.target = a)

\* graph.edges_directed(a, Direction::Outgoing), in enumeration order
EdgesOutgoing(es, a) == SelectSeq(es, LAMBDA e : e.source = a)

\* graph[a] = GraphNode::Store(value)
SetStore(g, a, value) == [g EXCEPT ![a] = Store(value)]

-----------------------------------------------------------------------------
(* The node implementations.                                               *)

\* TestSync::run and TestAsync::run: Ok(inputs)
TestRun(inputs) == Ok(inputs)

\* A match that takes the prompt from the last input instead of the first
LlmPromptLast(inputs) ==
    IF Len(inputs) = 0 THEN Err(MissingInput(0))
    ELSE IF inputs[Len(inputs)][1] # "String"
         THEN Err(ConversionError(inputs[Len(inputs)]))
    ELSE Ok(inputs[Len(inputs)][2])

\* The match on inputs.first() in LlmWeight::run: the prompt, or the error
LlmPrompt(inputs) ==
    IF Len(inputs) = 0 THEN Err(MissingInput(0))
    ELSE IF inputs[1][1] # "String" THEN Err(ConversionError(inputs[1]))
    ELSE Ok(inputs[1][2])

\* A run that returns its prompt instead of the backend's response
LlmRunEcho(inputs, generated) ==
    LET prompt == LlmPrompt(inputs)
    IN  IF IsErr(prompt) THEN prompt
        ELSE IF IsErr(generated) THEN Err(InternalError)
        ELSE Ok(<<String(prompt[2])>>)

\* LlmWeight::run; generated is what backend.generate(&prompt) answered
LlmRun(inputs, generated) ==
    LET prompt == LlmPrompt(inputs)
    IN  IF IsErr(prompt) THEN prompt
        ELSE IF IsErr(generated) THEN Err(InternalError)
        ELSE Ok(<<String(generated[2])>>)

\* The call of backend.generate that the run of `node` makes, if it makes one
Generate(node, inputs, generated) ==
    IF node = "LlmWeight" /\ IsOk(LlmPrompt(inputs))
    THEN <<"Some", [prompt |-> LlmPrompt(inputs)[2], generated |-> generated]>>
    ELSE None

\* node.run(inputs), dispatched on the boxed node
Run(node, inputs, generated) ==
    IF node = "LlmWeight" THEN LlmRun(inputs, generated) ELSE TestRun(inputs)

-----------------------------------------------------------------------------
(* The phases of ExecutionStep::execute.                                   *)

\* A collection that takes every incoming edge for an input, at slot 0 when the
\* edge has no slot
ReadInputsAnyEdge(es, a) ==
    LET inc == EdgesIncoming(es, a)
    IN  [i \in 1..Len(inc) |->
            <<IF IsDataMap(inc[i].weight) THEN inc[i].weight[2] ELSE 0, inc[i].source>>]

\* The incoming DataMap edges of the node, as (data_idx, source) pairs
ReadInputs(es, a) ==
    LET inc == SelectSeq(EdgesIncoming(es, a), LAMBDA e : IsDataMap(e.weight))
    IN  [i \in 1..Len(inc) |-> <<inc[i].weight[2], inc[i].source>>]

\* A loop that keeps the value of the first DataFlow edge instead of the last
RECURSIVE MirrorLoopFirst(_, _, _)
MirrorLoopFirst(g, flows, new_value) ==
    IF flows = <<>> THEN Ok(new_value)
    ELSE LET source_weight == NodeWeight(g, Head(flows).source)
         IN  IF IsNone(source_weight) THEN Err(NoWeight)
             ELSE IF IsStore(source_weight[2])
                  THEN MirrorLoopFirst(g, Tail(flows),
                           IF IsNone(new_value) THEN <<"Some", source_weight[2][2]>>
                           ELSE new_value)
                  ELSE Err(InvalidWeight)

\* The loop over the DataFlow edges into an input's source: new_value after
\* the edges `flows`, or the error that ended the loop
RECURSIVE MirrorLoop(_, _, _)
MirrorLoop(g, flows, new_value) ==
    IF flows = <<>> THEN Ok(new_value)
    ELSE LET source_weight == NodeWeight(g, Head(flows).source)
         IN  IF IsNone(source_weight) THEN Err(NoWeight)
             ELSE IF IsStore(source_weight[2])
                  THEN MirrorLoop(g, Tail(flows), <<"Some", source_weight[2][2]>>)
                  ELSE Err(InvalidWeight)

\* A closure whose loop lacks the test for DataFlow: every edge into the
\* source is taken for a mirror
ResolveSourceAnyEdge(g, es, data_idx, source_idx) ==
    LET looped == MirrorLoop(g, EdgesIncoming(es, source_idx), None)
        source_weight == NodeWeight(g, source_idx)
    IN  IF IsErr(looped) THEN [graph |-> g, result |-> looped]
        ELSE IF ~IsNone(looped[2])
             THEN [graph |-> SetStore(g, source_idx, looped[2][2]),
                   result |-> Ok(<<data_idx, looped[2][2]>>)]
        ELSE IF IsNone(source_weight) THEN [graph |-> g, result |-> Err(NoWeight)]
        ELSE IF IsStore(source_weight[2])
             THEN [graph |-> g, result |-> Ok(<<data_idx, source_weight[2][2]>>)]
             ELSE [graph |-> g, result |-> Err(InvalidWeight)]

\* The closure that resolves one input: the graph it leaves and its result,
\* Ok((data_idx, value)) or Err(e)
ResolveSource(g, es, data_idx, source_idx) ==
    LET flows == SelectSeq(EdgesIncoming(es, source_idx),
                           LAMBDA e : IsDataFlow(e.weight))
        looped == MirrorLoop(g, flows, None)
        source_weight == NodeWeight(g, source_idx)
    IN  IF IsErr(looped) THEN [graph |-> g, result |-> looped]
        ELSE IF ~IsNone(looped[2])
             THEN [graph |-> SetStore(g, source_idx, looped[2][2]),
                   result |-> Ok(<<data_idx, looped[2][2]>>)]
        ELSE IF IsNone(source_weight) THEN [graph |-> g, result |-> Err(NoWeight)]
        ELSE IF IsStore(source_weight[2])
             THEN [graph |-> g, result |-> Ok(<<data_idx, source_weight[2][2]>>)]
             ELSE [graph |-> g, result |-> Err(InvalidWeight)]

\* x put into the sorted sequence s behind every element whose key is not
\* greater: one step of a stable sort
\* An insertion that puts an element before the elements of the same key
RECURSIVE InsertByKeyUnstable(_, _)
InsertByKeyUnstable(x, s) ==
    IF s = <<>> THEN <<x>>
    ELSE IF x[1] <= s[1][1] THEN <<x>> \o s
    ELSE <<s[1]>> \o InsertByKeyUnstable(x, Tail(s))

RECURSIVE InsertByKey(_, _)
InsertByKey(x, s) ==
    IF s = <<>> THEN <<x>>
    ELSE IF x[1] < s[1][1] THEN <<x>> \o s
    ELSE <<s[1]>> \o InsertByKey(x, Tail(s))

\* A step that forgets to sort: the inputs stay in enumeration order
SortByKeySkipped(s) == s

\* inputs.sort_by_key(|(idx, _)| *idx): a stable sort
RECURSIVE SortByKey(_)
SortByKey(s) ==
    IF s = <<>> THEN <<>>
    ELSE InsertByKey(s[Len(s)], SortByKey(SubSeq(s, 1, Len(s) - 1)))

\* inputs.into_iter().map(|(_, value)| value).collect()
Values(s) == [i \in 1..Len(s) |-> s[i][2]]

\* The outgoing DataMap edges of the node, as (target, data_idx) pairs
Outputs(es, a) ==
    LET out == SelectSeq(EdgesOutgoing(es, a), LAMBDA e : IsDataMap(e.weight))
    IN  [i \in 1..Len(out) |-> <<out[i].target, out[i].weight[2]>>]

\* A find that takes the slots to count from 1
FindOutputFromOne(outputs, i) ==
    LET hits == SelectSeq(outputs, LAMBDA o : o[2] = i + 1)
    IN  IF hits = <<>> THEN None ELSE <<"Some", hits[1]>>

\* outputs.iter().find(|(_, idx)| *idx == i): the first match, or None
FindOutput(outputs, i) ==
    LET hits == SelectSeq(outputs, LAMBDA o : o[2] = i)
    IN  IF hits = <<>> THEN None ELSE <<"Some", hits[1]>>

\* The loop that writes the results from position i on (i counts from 0)
RECURSIVE WriteLoop(_, _, _, _)
WriteLoop(g, outputs, results, i) ==
    IF i >= Len(results) THEN g
    ELSE LET output == FindOutput(outputs, i)
         IN  IF IsNone(output) THEN WriteLoop(g, outputs, results, i + 1)
             ELSE WriteLoop(SetStore(g, output[2][1], results[i + 1]),
                            outputs, results, i + 1)

\* Successors that lack the test for ExecutionFlow: every outgoing edge counts
SuccessorsAnyEdge(es, a) ==
    LET out == EdgesOutgoing(es, a)
    IN  [i \in 1..Len(out) |-> out[i].target]

\* The targets of the outgoing ExecutionFlow edges of the node
Successors(es, a) ==
    LET out == SelectSeq(EdgesOutgoing(es, a), LAMBDA e : IsExecutionFlow(e.weight))
    IN  [i \in 1..Len(out) |-> out[i].target]

-----------------------------------------------------------------------------
(* The graphs the steps run on.                                            *)

\* The most edges a graph of the model has
MaxEdges == 4

\* Graph::add_node hands out the indices 0, 1, ... in order
Weights(t) == [i \in 0..(Len(t) - 1) |-> t[i + 1]]

\* Every order of every set of at most MaxEdges edges of `pool`
RECURSIVE Orders(_, _)
Orders(pool, n) ==
    IF n = 0 THEN {<<>>}
    ELSE {<<>>} \cup UNION {{<<e>> \o s : s \in Orders(pool \ {e}, n - 1)} : e \in pool}

Graphs(weights, pool) ==
    {[nodes |-> Weights(w), edges |-> es] : w \in weights, es \in Orders(pool, MaxEdges)}

\* The graph of tests::test_sync_execution and tests::test_async_execution:
\* input = 0, node = 1, output = 2
TestGraphs ==
    Graphs({<<Store(String("Hello, world!")), n, Store(String(""))>> :
                n \in {SyncNode("TestSync"), AsyncNode("TestAsync")}},
           {Edge(0, 1, DataMap(0)), Edge(1, 2, DataMap(0))})

\* The graph Llm::new builds: index = 0, input = 1, output = 2
LlmGraphs ==
    Graphs({<<AsyncNode("LlmWeight"), Store(String("")), Store(String(""))>>},
           {Edge(1, 0, DataMap(0)), Edge(0, 2, DataMap(0))})

\* The other graphs have two computation nodes, N and M, and three stores,
\* A, B and C, holding "a", "b" and "c"
At == [N |-> 0, M |-> 1, A |-> 2, B |-> 3, C |-> 4]

Layout(n, m) == <<n, m, Store(String("a")), Store(String("b")), Store(String("c"))>>

AnyNode == {SyncNode("TestSync"), AsyncNode("TestAsync"), AsyncNode("LlmWeight")}

\* Input slots of N: in order, with a gap, with a duplicate
InputGraphs ==
    Graphs({Layout(n, SyncNode("TestSync")) : n \in AnyNode},
           {Edge(At.A, At.N, DataMap(0)), Edge(At.B, At.N, DataMap(1)),
            Edge(At.C, At.N, DataMap(2)), Edge(At.C, At.N, DataMap(0)),
            Edge(At.N, At.C, DataMap(0))})

\* Mirrors: B and C are mirrored into A, M writes into B, N writes into A
MirrorGraphs ==
    Graphs({Layout(n, SyncNode("TestSync")) :
                n \in {SyncNode("TestSync"), AsyncNode("LlmWeight")}},
           {Edge(At.A, At.N, DataMap(0)), Edge(At.B, At.A, DataFlow),
            Edge(At.C, At.A, DataFlow), Edge(At.C, At.M, DataMap(0)),
            Edge(At.M, At.B, DataMap(0)), Edge(At.B, At.N, DataMap(1)),
            Edge(At.N, At.A, DataMap(0))})

\* Output slots of N: matching, missing, duplicated
OutputGraphs ==
    Graphs({Layout(n, SyncNode("TestSync")) : n \in AnyNode},
           {Edge(At.A, At.N, DataMap(0)), Edge(At.B, At.N, DataMap(1)),
            Edge(At.N, At.C, DataMap(0)), Edge(At.N, At.B, DataMap(1)),
            Edge(At.N, At.A, DataMap(2)), Edge(At.N, At.A, DataMap(0))})

\* Execution flow between N and M
FlowGraphs ==
    Graphs({Layout(n, AsyncNode("TestAsync")) :
                n \in {SyncNode("TestSync"), AsyncNode("LlmWeight")}},
           {Edge(At.N, At.M, ExecutionFlow), Edge(At.N, At.N, ExecutionFlow),
            Edge(At.M, At.N, ExecutionFlow), Edge(At.A, At.N, DataMap(0)),
            Edge(At.N, At.B, DataMap(0)), Edge(At.A, At.B, DataFlow)})

\* Edges whose endpoints are of the wrong kind
WrongGraphs ==
    Graphs({Layout(SyncNode("TestSync"), AsyncNode("TestAsync"))},
           {Edge(At.M, At.N, DataMap(0)), Edge(At.A, At.M, DataFlow),
            Edge(At.M, At.A, DataFlow), Edge(At.A, At.B, DataMap(0)),
            Edge(At.N, At.A, DataMap(0)), Edge(At.A, At.N, DataMap(1)),
            Edge(At.N, At.M, DataMap(0)), Edge(At.B, At.A, DataFlow)})

\* The graph of Llm::new after the caller has set the prompt store
PromptGraphs ==
    Graphs({<<AsyncNode("LlmWeight"), Store(String("p")), Store(String(""))>>},
           {Edge(1, 0, DataMap(0)), Edge(0, 2, DataMap(0))})

\* A -DataMap(0)-> N -DataMap(0)-> B, and edges of a kind that no traversal
\* of N's step looks for in their place
StrayGraphs ==
    Graphs({Layout(SyncNode("TestSync"), AsyncNode("TestAsync"))},
           {Edge(At.A, At.N, DataMap(0)), Edge(At.N, At.B, DataMap(0)),
            Edge(At.C, At.N, DataFlow), Edge(At.M, At.A, ExecutionFlow),
            Edge(At.N, At.C, DataFlow), Edge(At.C, At.A, DataMap(0))})

\* A chain of mirrors between the inputs of N: C into B, B into A
ChainGraphs ==
    Graphs({Layout(SyncNode("TestSync"), SyncNode("TestSync"))},
           {Edge(At.A, At.N, DataMap(0)), Edge(At.B, At.N, DataMap(1)),
            Edge(At.B, At.A, DataFlow), Edge(At.C, At.B, DataFlow),
            Edge(At.N, At.C, DataMap(0))})

AllGraphs ==
    TestGraphs \cup LlmGraphs \cup InputGraphs \cup MirrorGraphs \cup OutputGraphs
        \cup FlowGraphs \cup WrongGraphs \cup PromptGraphs \cup StrayGraphs
        \cup ChainGraphs

\* What backend.generate may answer
Generated == {Ok("r"), Err("BackendError")}

-----------------------------------------------------------------------------
(* The state machine.                                                      *)

\* The handles a caller may hold: the nodes, and one past the last
Handles == DOMAIN nodes \cup {Cardinality(DOMAIN nodes)}

Init ==
    /\ \E g \in AllGraphs : nodes = g.nodes /\ edges = g.edges
    /\ pc = "idle"
    /\ self = 0
    /\ pending = <<>>
    /\ resolved = <<>>
    /\ args = None
    /\ res = None
    /\ ret = None
    /\ pre = nodes
    /\ runs = 0
    /\ backend = None

\* execute returns: its locals are dropped
Return(result) ==
    /\ ret' = result
    /\ pc' = "idle"
    /\ pending' = <<>>
    /\ resolved' = <<>>

\* ExecutionStep(h).execute(graph) is called; the incoming DataMap edges are
\* collected
Execute(h) ==
    /\ pc = "idle"
    /\ self' = h
    /\ pending' = ReadInputs(edges, h)
    /\ resolved' = <<>>
    /\ args' = None
    /\ res' = None
    /\ ret' = None
    /\ pre' = nodes
    /\ runs' = 0
    /\ backend' = None
    /\ pc' = "resolve"
    /\ UNCHANGED <<nodes, edges>>

\* A collect that drops the inputs that failed to resolve and goes on
ResolveInputSkipErrors ==
    /\ pc = "resolve"
    /\ pending # <<>>
    /\ LET r == ResolveSource(nodes, edges, Head(pending)[1], Head(pending)[2])
       IN  /\ nodes' = r.graph
           /\ resolved' = IF IsOk(r.result) THEN Append(resolved, r.result[2])
                          ELSE resolved
           /\ pending' = Tail(pending)
           /\ UNCHANGED <<pc, ret>>
    /\ UNCHANGED <<edges, self, args, res, pre, runs, backend>>

\* A closure that undoes the refreshes of the step when an input fails
ResolveInputRollback ==
    /\ pc = "resolve"
    /\ pending # <<>>
    /\ LET r == ResolveSource(nodes, edges, Head(pending)[1], Head(pending)[2])
       IN  IF IsOk(r.result)
           THEN /\ nodes' = r.graph
                /\ resolved' = Append(resolved, r.result[2])
                /\ pending' = Tail(pending)
                /\ UNCHANGED <<pc, ret>>
           ELSE nodes' = pre /\ Return(r.result)
    /\ UNCHANGED <<edges, self, args, res, pre, runs, backend>>

\* One turn of the closure over the inputs; `?` on collect returns the first
\* error
ResolveInput ==
    /\ pc = "resolve"
    /\ pending # <<>>
    /\ LET r == ResolveSource(nodes, edges, Head(pending)[1], Head(pending)[2])
       IN  /\ nodes' = r.graph
           /\ IF IsOk(r.result)
              THEN /\ resolved' = Append(resolved, r.result[2])
                   /\ pending' = Tail(pending)
                   /\ UNCHANGED <<pc, ret>>
              ELSE Return(r.result)
    /\ UNCHANGED <<edges, self, args, res, pre, runs, backend>>

\* What follows node.run(inputs): `?` returns a node's error, the results go on
\* to the output phase
Ran(result) ==
    IF IsOk(result)
    THEN /\ res' = result
         /\ pc' = "commit"
         /\ UNCHANGED <<ret, pending, resolved>>
    ELSE /\ Return(Err(NodeError(result[2])))
         /\ UNCHANGED res

\* A dispatch whose last arm takes a Store for a node without results
InvokeAnyWeight ==
    /\ pc = "resolve"
    /\ pending = <<>>
    /\ LET inputs == Values(SortByKey(resolved))
           node == NodeWeight(nodes, self)
       IN  IF IsNone(node)
           THEN Return(Err(NoWeight)) /\ UNCHANGED <<args, res, runs>>
           ELSE IF node[2][1] = "AsyncNode"
           THEN /\ args' = inputs
                /\ runs' = runs + 1
                /\ pc' = "await"
                /\ UNCHANGED <<res, ret, pending, resolved>>
           ELSE IF node[2][1] = "SyncNode"
           THEN /\ args' = inputs
                /\ runs' = runs + 1
                /\ Ran(Run(node[2][2], inputs, None))
           ELSE Ran(Ok(<<>>)) /\ UNCHANGED <<args, runs>>
    /\ UNCHANGED <<nodes, edges, self, pre, backend>>

\* The inputs are sorted, the node is looked up and run; an AsyncNode's run
\* gives a future, which the step awaits
Invoke ==
    /\ pc = "resolve"
    /\ pending = <<>>
    /\ LET inputs == Values(SortByKey(resolved))
           node == NodeWeight(nodes, self)
       IN  IF IsNone(node)
           THEN Return(Err(NoWeight)) /\ UNCHANGED <<args, res, runs>>
           ELSE IF node[2][1] = "AsyncNode"
           THEN /\ args' = inputs
                /\ runs' = runs + 1
                /\ pc' = "await"
                /\ UNCHANGED <<res, ret, pending, resolved>>
           ELSE IF node[2][1] = "SyncNode"
           THEN /\ args' = inputs
                /\ runs' = runs + 1
                /\ Ran(Run(node[2][2], inputs, None))
           ELSE Return(Err(InvalidWeight)) /\ UNCHANGED <<args, res, runs>>
    /\ UNCHANGED <<nodes, edges, self, pre, backend>>

\* A future that was built without its inputs: run sees an empty list
AwaitWithoutInputs ==
    /\ pc = "await"
    /\ \E generated \in Generated :
          /\ Ran(Run(nodes[self][2], <<>>, generated))
          /\ backend' = Generate(nodes[self][2], <<>>, generated)
    /\ UNCHANGED <<nodes, edges, self, args, pre, runs>>

\* The future of an AsyncNode completes
Await ==
    /\ pc = "await"
    /\ \E generated \in Generated :
          /\ Ran(Run(nodes[self][2], args, generated))
          /\ backend' = Generate(nodes[self][2], args, generated)
    /\ UNCHANGED <<nodes, edges, self, args, pre, runs>>

\* An output loop that returns an error for a result without edge, after
\* the results before it have been written
RECURSIVE WriteLoopStrict(_, _, _, _)
WriteLoopStrict(g, outputs, results, i) ==
    IF i >= Len(results) THEN [graph |-> g, ok |-> TRUE]
    ELSE LET output == FindOutput(outputs, i)
         IN  IF IsNone(output) THEN [graph |-> g, ok |-> FALSE]
             ELSE WriteLoopStrict(SetStore(g, output[2][1], results[i + 1]),
                                  outputs, results, i + 1)

WriteOutputsStrict ==
    /\ pc = "commit"
    /\ LET w == WriteLoopStrict(nodes, Outputs(edges, self), res[2], 0)
       IN  /\ nodes' = w.graph
           /\ IF w.ok
              THEN pc' = "next" /\ UNCHANGED <<pending, resolved, ret>>
              ELSE Return(Err(InvalidWeight))
    /\ UNCHANGED <<edges, self, args, res, pre, runs, backend>>

\* The results are written to the stores behind the outgoing DataMap edges
WriteOutputs ==
    /\ pc = "commit"
    /\ nodes' = WriteLoop(nodes, Outputs(edges, self), res[2], 0)
    /\ pc' = "next"
    /\ UNCHANGED <<edges, self, pending, resolved, args, res, ret, pre, runs,
                   backend>>

\* The targets of the outgoing ExecutionFlow edges are returned
NextSteps ==
    /\ pc = "next"
    /\ Return(Ok(Successors(edges, self)))
    /\ UNCHANGED <<nodes, edges, self, args, res, pre, runs, backend>>

Next ==
    \/ \E h \in Handles : Execute(h)
    \/ ResolveInput
    \/ Invoke
    \/ Await
    \/ WriteOutputs
    \/ NextSteps

Spec == Init /\ [][Next]_vars

-----------------------------------------------------------------------------
(* Vocabulary of the properties, read off the edges and the snapshot `pre`. *)

\* execute has returned
Finished == pc = "idle" /\ ~IsNone(ret)

\* execute has got past the resolution of the inputs without an error
PastInputs == pc \in {"await", "commit", "next"} \/ (Finished /\ runs = 1)

\* The positions in `edges` of the DataMap edges into h, of the DataMap edges
\* out of h, and of the DataFlow edges into s
InputEdges(h) ==
    {i \in 1..Len(edges) : edges[i].target = h /\ IsDataMap(edges[i].weight)}
OutputEdges(h) ==
    {i \in 1..Len(edges) : edges[i].source = h /\ IsDataMap(edges[i].weight)}
FlowEdges(s) ==
    {i \in 1..Len(edges) : edges[i].target = s /\ IsDataFlow(edges[i].weight)}

\* h was a computation node when the step started
WasNode(h) == h \in DOMAIN pre /\ pre[h][1] \in {"SyncNode", "AsyncNode"}

\* h was a Store when the step started
WasStore(h) == h \in DOMAIN pre /\ IsStore(pre[h])

-----------------------------------------------------------------------------
(* C1: a computation node whose incoming DataMap edges carry the distinct  *)
(* slots 0..n-1, each from a Store without DataFlow predecessor, is run    *)
(* with exactly the stores' values in ascending slot order, whatever the   *)
(* order in which the edges are enumerated.                                *)

\* The incoming DataMap edges of h carry 0..n-1, once each, from plain stores
DenseInputs(h) ==
    LET n == Cardinality(InputEdges(h))
    IN  /\ {edges[i].weight[2] : i \in InputEdges(h)} = 0..(n - 1)
        /\ \A i \in InputEdges(h) :
              WasStore(edges[i].source) /\ FlowEdges(edges[i].source) = {}

\* The value the store bound to slot k of h held when the step started
SlotValue(h, k) ==
    LET i == CHOOSE j \in InputEdges(h) : edges[j].weight[2] = k
    IN  pre[edges[i].source][2]

\* C1: once the inputs of such a node are resolved, run has been invoked
\* once, with the value of slot 0, of slot 1, ... in this order
C1_ArgumentsInSlotOrder ==
    (WasNode(self) /\ DenseInputs(self) /\ (PastInputs \/ Finished))
        => /\ runs = 1
           /\ args = [k \in 1..Cardinality(InputEdges(self)) |-> SlotValue(self, k - 1)]

\* Three inputs, enumerated with slot 2 first, were handed over as a, b, c
C1_Witness ==
    /\ Finished /\ IsOk(ret) /\ WasNode(self) /\ DenseInputs(self)
    /\ Cardinality(InputEdges(self)) = 3
    /\ ReadInputs(edges, self)[1][1] = 2
    /\ runs = 1
    /\ args = <<String("a"), String("b"), String("c")>>

-----------------------------------------------------------------------------
(* C2: in the shape Store a -DataMap(0)-> node -DataMap(0)-> Store b with   *)
(* an identity node, the step succeeds, returns no successors and leaves b *)
(* equal to a's value and everything else as it was; the outcome is the    *)
(* same for the SyncNode and for the AsyncNode.                            *)

\* The graph is exactly a -DataMap(0)-> self -DataMap(0)-> b, self an identity
IdentityShape(a, b) ==
    /\ WasStore(a) /\ WasStore(b) /\ WasNode(self)
    /\ pre[self][2] \in {"TestSync", "TestAsync"}
    /\ Len(edges) = 2
    /\ {edges[1], edges[2]} = {Edge(a, self, DataMap(0)), Edge(self, b, DataMap(0))}

\* C2: the finished step is Ok(no successors) and the graph is the one it
\* started from with b holding a's value, for either variant of the node
C2_IdentityStep ==
    \A a, b \in DOMAIN pre :
        (Finished /\ IdentityShape(a, b))
            => /\ IsOk(ret)
               /\ ret[2] = <<>>
               /\ nodes = [pre EXCEPT ![b] = pre[a]]

\* The graph of test_async_execution after its step
C2_Witness ==
    /\ Finished /\ IdentityShape(0, 2)
    /\ pre[self] = AsyncNode("TestAsync")
    /\ pre[2] = Store(String(""))
    /\ nodes[2] = Store(String("Hello, world!"))

-----------------------------------------------------------------------------
(* C3: the output commit is positional.  It changes a store only to the    *)
(* result at the slot of an outgoing DataMap edge that reaches it; the     *)
(* first edge enumerated with slot i receives result i (unless another     *)
(* outgoing edge reaches the same store); stores behind slots that have no *)
(* result keep their value; a result without edge is dropped and the step  *)
(* goes on to return its successors.                                       *)

\* C3: what the output phase may change, what it must write, and that it
\* and the successor phase after it do not fail
C3_OutputCommitPositional ==
    [][/\ pc = "next" => IsOk(ret')
       /\ pc = "commit" =>
        LET results == res[2]
            slot(i) == edges[i].weight[2]
        IN  /\ pc' = "next" /\ IsNone(ret')
            /\ \A s \in DOMAIN nodes :
                  nodes'[s] # nodes[s] =>
                      \E i \in OutputEdges(self) :
                          /\ edges[i].target = s
                          /\ slot(i) < Len(results)
                          /\ nodes'[s] = Store(results[slot(i) + 1])
            /\ \A i \in OutputEdges(self) :
                  (/\ slot(i) < Len(results)
                   /\ \A j \in OutputEdges(self) \ {i} :
                         /\ edges[j].target # edges[i].target
                         /\ slot(j) = slot(i) => j > i)
                      => nodes'[edges[i].target] = Store(results[slot(i) + 1])
    ]_vars

\* Two results a, b; slot 0 leads to C, no edge has slot 1, slot 2 leads to A:
\* C has received a, b was dropped, A kept its value
C3_Witness ==
    /\ pc = "next" /\ self = At.N
    /\ Cardinality(DOMAIN nodes) = 5
    /\ res[2] = <<String("a"), String("b")>>
    /\ {edges[i] : i \in OutputEdges(self)}
           = {Edge(At.N, At.C, DataMap(0)), Edge(At.N, At.A, DataMap(2))}
    /\ pre[At.C] = Store(String("c"))
    /\ nodes[At.C] = Store(String("a"))
    /\ nodes[At.A] = pre[At.A]

-----------------------------------------------------------------------------
(* C4: when a Store s with a DataFlow predecessor p is read as an input,   *)
(* the value resolved for the slot, handed to the node, and held by s      *)
(* after the read, is the value p holds at that moment.                    *)

\* The turn of the closure that is about to run reads the store s
Reading(s) == pc = "resolve" /\ pending # <<>> /\ Head(pending)[2] = s

\* Every DataFlow edge into s comes from a Store
MirrorsAreStores(s) == \A i \in FlowEdges(s) : IsStore(nodes[edges[i].source])

\* The read of s took the value of p: it is the pair resolved for the slot and
\* the new content of s
ReadTook(s, p) ==
    /\ resolved' = Append(resolved, <<Head(pending)[1], nodes[p][2]>>)
    /\ nodes' = [nodes EXCEPT ![s] = nodes[p]]

\* The value resolved for a slot that occurs once is handed to run at the
\* place its slot has in ascending order
HandedOver ==
    (pc = "resolve" /\ pending = <<>> /\ runs' = 1) =>
        /\ Len(args') = Len(resolved)
        /\ \A k \in 1..Len(resolved) :
              (\A j \in 1..Len(resolved) : resolved[j][1] = resolved[k][1] => j = k)
                  => args'[1 + Cardinality({j \in 1..Len(resolved) :
                                              resolved[j][1] < resolved[k][1]})]
                         = resolved[k][2]

\* C4 as stated: the read takes the value of p, for every DataFlow
\* predecessor p of s
C4_AnyPredecessor ==
    [][\A s \in DOMAIN nodes :
          (Reading(s) /\ IsStore(nodes[s]) /\ MirrorsAreStores(s)) =>
              \A i \in FlowEdges(s) : ReadTook(s, edges[i].source)
    ]_vars

\* The DataFlow edge into s that is enumerated last
LastFlowEdge(s) == CHOOSE i \in FlowEdges(s) : \A j \in FlowEdges(s) : j <= i

\* C4 amended: the read takes the value of the predecessor p on the DataFlow
\* edge into s that is enumerated last (s's predecessor, when it has only
\* one), and run is handed the values that were resolved
C4_LastPredecessor ==
    [][/\ \A s \in DOMAIN nodes :
             (Reading(s) /\ IsStore(nodes[s]) /\ MirrorsAreStores(s)
                         /\ FlowEdges(s) # {})
                 => ReadTook(s, edges[LastFlowEdge(s)].source)
       /\ HandedOver
    ]_vars

\* M has written "c" into B in an earlier step; the step of N now reads A,
\* whose only mirror is B, and takes "c"
C4_Witness ==
    /\ pc = "resolve" /\ self = At.N /\ pending = <<>>
    /\ Cardinality(DOMAIN nodes) = 5
    /\ {edges[i] : i \in 1..Len(edges)}
           = {Edge(At.C, At.M, DataMap(0)), Edge(At.M, At.B, DataMap(0)),
              Edge(At.B, At.A, DataFlow), Edge(At.A, At.N, DataMap(0))}
    /\ pre[At.B] = Store(String("c"))
    /\ pre[At.A] = Store(String("a"))
    /\ resolved = <<<<0, String("c")>>>>
    /\ nodes[At.A] = Store(String("c"))

-----------------------------------------------------------------------------
(* C5: a Store without incoming DataFlow edge keeps its value through      *)
(* every step whose node has no outgoing DataMap edge to it, and a read of *)
(* it resolves its slot to the value it holds, leaving the graph as it is. *)

\* C5: the frame of a plain store, and what a read of it resolves and hands on
C5_PlainStoreKept ==
    [][/\ HandedOver
       /\ \A s \in DOMAIN nodes :
             (/\ IsStore(nodes[s])
              /\ FlowEdges(s) = {}
              /\ \A i \in OutputEdges(self) : edges[i].target # s)
                 => nodes'[s] = nodes[s]
       /\ \A s \in DOMAIN nodes :
             (Reading(s) /\ IsStore(nodes[s]) /\ FlowEdges(s) = {})
                 => /\ resolved' = Append(resolved, <<Head(pending)[1], nodes[s][2]>>)
                    /\ nodes' = nodes
    ]_vars

\* N has run before (C holds the "a" it wrote) and has read A once more: A
\* still holds "a" and "a" is resolved for its slot
C5_Witness ==
    /\ pc = "resolve" /\ self = At.N /\ pending = <<>>
    /\ Cardinality(DOMAIN nodes) = 5
    /\ {edges[i] : i \in 1..Len(edges)}
           = {Edge(At.A, At.N, DataMap(0)), Edge(At.N, At.C, DataMap(0))}
    /\ pre[At.C] = Store(String("a"))
    /\ resolved = <<<<0, String("a")>>>>
    /\ nodes[At.A] = Store(String("a"))

-----------------------------------------------------------------------------
(* C6: the successors a step returns are exactly the targets of the        *)
(* outgoing ExecutionFlow edges of its node, each as often as it has such  *)
(* edges, whatever DataMap and DataFlow edges surround the node.           *)

\* The positions in `edges` of the ExecutionFlow edges out of h
ExecutionEdges(h) ==
    {i \in 1..Len(edges) : edges[i].source = h /\ IsExecutionFlow(edges[i].weight)}

\* C6: an Ok result holds every node as often as there are ExecutionFlow
\* edges from the executed node to it, and nothing else
C6_SuccessorsAreFlowTargets ==
    (Finished /\ IsOk(ret)) =>
        /\ Len(ret[2]) = Cardinality(ExecutionEdges(self))
        /\ \A t \in DOMAIN nodes :
              Cardinality({k \in 1..Len(ret[2]) : ret[2][k] = t})
                  = Cardinality({i \in ExecutionEdges(self) : edges[i].target = t})

\* N has ExecutionFlow edges to M and to itself, and data edges on both sides
C6_Witness ==
    /\ Finished /\ IsOk(ret) /\ self = At.N
    /\ Len(ret[2]) = 2
    /\ {ret[2][1], ret[2][2]} = {At.N, At.M}
    /\ InputEdges(self) # {}
    /\ OutputEdges(self) # {}

-----------------------------------------------------------------------------
(* C7: a step on a handle that addresses a Store fails with InvalidWeight  *)
(* in every graph; no run is invoked, no output written, no successor      *)
(* returned.                                                               *)

\* C7: on a Store handle run is never invoked, the output and successor
\* phases are never reached, and the step returns Err(InvalidWeight)
C7_StoreHandleInvalid ==
    WasStore(self) =>
        /\ runs = 0
        /\ pc \notin {"await", "commit", "next"}
        /\ Finished => (IsErr(ret) /\ ret[2] = InvalidWeight)

\* The Store has an input of its own, which resolved: the dispatch failed
C7_Witness ==
    /\ Finished /\ WasStore(self)
    /\ InputEdges(self) # {}
    /\ \A i \in InputEdges(self) : WasStore(edges[i].source)
    /\ IsErr(ret) /\ ret[2] = InvalidWeight

-----------------------------------------------------------------------------
(* C8: a step on a handle that resolves to no node fails with NoWeight and *)
(* leaves every node weight as it was.                                     *)

\* C8: on a handle outside the graph run is never invoked, no node weight
\* changes, and the step returns Err(NoWeight)
C8_MissingHandleNoWeight ==
    (self \notin DOMAIN pre) =>
        /\ runs = 0
        /\ nodes = pre
        /\ Finished => (IsErr(ret) /\ ret[2] = NoWeight)

\* In a graph with edges whose stores an earlier step has changed
C8_Witness ==
    /\ Finished /\ self \notin DOMAIN nodes
    /\ IsErr(ret) /\ ret[2] = NoWeight
    /\ Cardinality(DOMAIN nodes) = 5
    /\ nodes[At.C] # Store(String("c"))

-----------------------------------------------------------------------------
(* C9: while an input is resolved, the step fails with InvalidWeight       *)
(* whenever the source of the DataMap edge is not a Store, and whenever    *)
(* the source of a DataFlow edge into it is not a Store, in every          *)
(* combination of the two.                                                 *)

\* C9 as stated: the turn of the closure that reads a non-Store source, or a
\* source with a non-Store mirror, returns Err(InvalidWeight)
C9_WrongVariantFails ==
    [][\A s \in DOMAIN nodes :
          (Reading(s) /\ (~IsStore(nodes[s]) \/ ~MirrorsAreStores(s)))
              => (IsErr(ret') /\ ret'[2] = InvalidWeight)
    ]_vars

-----------------------------------------------------------------------------
(* C10: a failed step has written no output: run returned no results to    *)
(* write, and every Store behind an outgoing DataMap edge of the node      *)
(* holds the value it had when the step started, unless it is also an      *)
(* input source that has a mirror.                                         *)

\* C10: after an error return there are no results, and the stores behind the
\* node's output slots are as at the start, mirrored input sources excepted
C10_NoPartialCommit ==
    (Finished /\ IsErr(ret)) =>
        /\ IsNone(res)
        /\ \A i \in OutputEdges(self) :
              WasStore(edges[i].target) =>
                  \/ nodes[edges[i].target] = pre[edges[i].target]
                  \/ /\ FlowEdges(edges[i].target) # {}
                     /\ \E j \in InputEdges(self) : edges[j].source = edges[i].target

\* The LlmWeight node N reads A, refreshed from its mirror B, and its backend
\* fails: A, which is also behind N's output slot, holds the refreshed value
\* and no result was written
C10_Witness ==
    /\ Finished /\ IsErr(ret) /\ self = At.N
    /\ Cardinality(DOMAIN nodes) = 5
    /\ ret[2] = NodeError(InternalError)
    /\ args = <<String("b")>>
    /\ \E i \in OutputEdges(self) :
          edges[i].target = At.A /\ pre[At.A] = Store(String("a"))
    /\ nodes[At.A] = Store(String("b"))

-----------------------------------------------------------------------------
(* C11: a mirror refresh is not rolled back.  Until the output commit a    *)
(* node weight changes only by the read of that very source; the return of *)
(* an error changes no node weight; and after a failed invocation every    *)
(* input source that has a mirror holds the value of its last mirror.      *)

\* p is not refreshed by the step of `self`: it is no input source with a
\* mirror of its own
Settled(p) ==
    ~\E j \in InputEdges(self) : edges[j].source = p /\ FlowEdges(p) # {}

\* execute returns an error in this transition
Fails == pc # "idle" /\ pc' = "idle" /\ IsErr(ret')

\* C11: what a read has refreshed stays until the step ends in an error, be it
\* the error of a later input or of the node's run, and after a failed run the
\* refreshed sources hold their mirror's value
C11_RefreshNotRolledBack ==
    [][/\ \A s \in DOMAIN nodes :
             (pc \in {"resolve", "await"} /\ ~Reading(s)) => nodes'[s] = nodes[s]
       /\ Fails => nodes' = nodes
       /\ (Fails /\ runs' = 1) =>
             \A i \in InputEdges(self) :
                 LET s == edges[i].source
                 IN  (FlowEdges(s) # {} /\ Settled(edges[LastFlowEdge(s)].source))
                         => nodes'[s] = pre[edges[LastFlowEdge(s)].source]
    ]_vars

\* N reads A, refreshed from its mirror B, and then its second input, the
\* computation node M, fails: A holds "b" after the failed step
C11_Witness ==
    /\ Finished /\ IsErr(ret) /\ self = At.N /\ runs = 0
    /\ Cardinality(DOMAIN nodes) = 5
    /\ ret[2] = InvalidWeight
    /\ Cardinality(InputEdges(At.N)) = 2
    /\ pre[At.A] = Store(String("a"))
    /\ pre[At.M] = AsyncNode("TestAsync")
    /\ nodes = [pre EXCEPT ![At.A] = Store(String("b"))]

-----------------------------------------------------------------------------
(* LlmWeight::run on its own: every list of at most MaxInputs inputs, some  *)
(* of them no String, and every answer of the backend.                     *)

\* The longest list of inputs handed to run
MaxInputs == 3

\* A Value of another variant than Value::String
Other == <<"Other", "x">>

InputLists ==
    UNION {[1..k -> {String("p"), String("q"), Other}] : k \in 0..MaxInputs}

LlmInit ==
    /\ nodes = Weights(<<AsyncNode("LlmWeight")>>)
    /\ edges = <<>>
    /\ pc = "call"
    /\ self = 0
    /\ pending = <<>>
    /\ resolved = <<>>
    /\ args \in InputLists
    /\ res = None
    /\ ret = None
    /\ pre = nodes
    /\ runs = 0
    /\ backend = None

\* LlmWeight::run(args).await; res is what it returned
LlmCall ==
    /\ pc = "call"
    /\ \E generated \in Generated :
          /\ res' = LlmRun(args, generated)
          /\ backend' = Generate(nodes[self][2], args, generated)
    /\ runs' = runs + 1
    /\ pc' = "called"
    /\ UNCHANGED <<nodes, edges, self, pending, resolved, args, ret, pre>>

SpecLlm == LlmInit /\ [][LlmCall]_vars

\* C12: run looks at the first input only.  Without inputs it is
\* Err(MissingInput(0)) and with a first input that is no String it is
\* Err(ConversionError(that input)), the backend not being asked in either
\* case; otherwise the backend is asked with the first input's string, its
\* failure gives Err(InternalError) and its answer gives Ok of exactly one
\* output, the String of the answer
C12_LlmRunFirstInput ==
    pc = "called" =>
        IF Len(args) = 0
        THEN IsErr(res) /\ res[2] = MissingInput(0) /\ IsNone(backend)
        ELSE IF args[1][1] # "String"
        THEN /\ IsErr(res) /\ res[2][1] = "ConversionError" /\ res[2][2] = args[1]
             /\ IsNone(backend)
        ELSE /\ ~IsNone(backend)
             /\ backend[2].prompt = args[1][2]
             /\ IF IsErr(backend[2].generated)
                THEN IsErr(res) /\ res[2] = InternalError
                ELSE /\ IsOk(res)
                     /\ Len(res[2]) = 1
                     /\ res[2][1] = String(backend[2].generated[2])

\* run was handed "p" and then a value that is no String, and the backend
\* answered: the one output is the answer
C12_Witness ==
    /\ pc = "called"
    /\ args = <<String("p"), Other>>
    /\ IsOk(res)
    /\ res[2] = <<String("r")>>

-----------------------------------------------------------------------------
(* The Log node on its own: every level, every message of at most MaxLen   *)
(* characters.  A message is the sequence of its characters.               *)

\* The longest message
MaxLen == 3

\* tracing::Level
Levels == {"TRACE", "DEBUG", "INFO", "WARN", "ERROR"}

Messages == UNION {[1..k -> {"a", "b"}] : k \in 0..MaxLen}

\* Log { level }
Log(level) == <<"Log", level>>

\* A run that returns the line it logs, level first
LogRunLine(level, input) ==
    IF input[1] = "String" THEN String(<<level>> \o input[2]) ELSE <<"panic">>

\* Log::run: the message is taken out of the input, logged at the level (an
\* event outside the program's state) and returned as a Value::String
LogRun(level, input) ==
    IF input[1] = "String" THEN String(input[2]) ELSE <<"panic">>

\* TypedNode::run_typed for TypedNode<String, String>: the input is made a
\* Value, run is awaited, the output is converted back
LogRunTyped(level, input) ==
    LET out == LogRun(level, String(input))
    IN  IF out[1] = "String" THEN Ok(out[2]) ELSE Err(ConversionError(out))

LogInit ==
    /\ \E level \in Levels : nodes = Weights(<<Log(level)>>)
    /\ edges = <<>>
    /\ pc = "call"
    /\ self = 0
    /\ pending = <<>>
    /\ resolved = <<>>
    /\ \E message \in Messages : args = String(message)
    /\ res = None
    /\ ret = None
    /\ pre = nodes
    /\ runs = 0
    /\ backend = None

\* log.run(args).await; res is what it returned
LogCall ==
    /\ pc = "call"
    /\ res' = LogRun(nodes[self][2], args)
    /\ runs' = runs + 1
    /\ pc' = "ran"
    /\ UNCHANGED <<nodes, edges, self, pending, resolved, args, ret, pre, backend>>

\* log.run_typed(message).await, message being the String in args; ret is
\* what it returned
LogCallTyped ==
    /\ pc = "call"
    /\ ret' = LogRunTyped(nodes[self][2], args[2])
    /\ runs' = runs + 1
    /\ pc' = "ran_typed"
    /\ UNCHANGED <<nodes, edges, self, pending, resolved, args, res, pre, backend>>

LogNext ==
    \/ LogCall
    \/ LogCallTyped

SpecLog == LogInit /\ [][LogNext]_vars

\* C13: at every level and for every String input, run returns a Value equal
\* to its input and run_typed returns Ok of a String equal to its input
C13_LogIsIdentity ==
    /\ pc = "ran" => res = args
    /\ pc = "ran_typed" => IsOk(ret) /\ ret[2] = args[2]

\* A Log at WARN has run on the message "ab"
C13_Witness ==
    /\ pc = "ran"
    /\ nodes[0] = Log("WARN")
    /\ args = String(<<"a", "b">>)
    /\ res = String(<<"a", "b">>)

-----------------------------------------------------------------------------
(* C14: an input source with several mirrors, all Stores, takes the value  *)
(* of the mirror on the DataFlow edge enumerated last: that value is       *)
(* handed to run for the slot and is the source's new content.             *)

\* The place in the argument list of the value resolved for the DataMap edge
\* at position i: after the edges of a smaller slot, and after the edges of
\* the same slot that are enumerated before it
Rank(i) ==
    1 + Cardinality({j \in InputEdges(self) :
                        \/ edges[j].weight[2] < edges[i].weight[2]
                        \/ edges[j].weight[2] = edges[i].weight[2] /\ j < i})

\* run has been invoked and no output has been written yet
AfterRun == runs = 1 /\ (pc \in {"await", "commit"} \/ (Finished /\ IsErr(ret)))

\* C14: with two or more mirrors, all Stores, the argument of the slot and the
\* content of the source are the value of the last mirror enumerated, whatever
\* the other mirrors hold
C14_LastOfSeveralMirrors ==
    \A i \in InputEdges(self) :
        LET s == edges[i].source
            p == edges[LastFlowEdge(s)].source
        IN  (/\ AfterRun
             /\ WasStore(s)
             /\ Cardinality(FlowEdges(s)) >= 2
             /\ \A j \in FlowEdges(s) : WasStore(edges[j].source)
             /\ Settled(p))
                => /\ args[Rank(i)] = pre[p][2]
                   /\ nodes[s] = pre[p]

\* A has the mirrors B and C, C enumerated last: N is run with "c", which A
\* now holds
C14_Witness ==
    /\ pc = "commit" /\ self = At.N /\ runs = 1
    /\ Cardinality(DOMAIN nodes) = 5
    /\ Cardinality(FlowEdges(At.A)) = 2
    /\ edges[LastFlowEdge(At.A)].source = At.C
    /\ pre[At.A] = Store(String("a"))
    /\ pre[At.B] = Store(String("b"))
    /\ args = <<String("c")>>
    /\ nodes[At.A] = Store(String("c"))

-----------------------------------------------------------------------------
(* C15: the slots of the incoming DataMap edges are not validated.  With   *)
(* gaps or duplicates among them the step meets no structural error, and   *)
(* run is handed one value per edge, ordered by slot and, within a slot,   *)
(* by the enumeration order of the edges.                                  *)

\* Every input of h comes from a Store that has no mirror
PlainInputs(h) ==
    \A i \in InputEdges(h) :
        WasStore(edges[i].source) /\ FlowEdges(edges[i].source) = {}

\* C15: whatever the slots of its inputs, a node with inputs from plain stores
\* is run, fails with nothing but an error of the node itself, and its
\* argument list has the value of each incoming DataMap edge at the edge's
\* rank by (slot, enumeration order)
C15_SlotsNotValidated ==
    (WasNode(self) /\ PlainInputs(self)) =>
        /\ Finished => /\ runs = 1
                       /\ IsErr(ret) => ret[2][1] = "NodeError"
        /\ PastInputs =>
              /\ Len(args) = Cardinality(InputEdges(self))
              /\ \A i \in InputEdges(self) :
                    args[Rank(i)] = pre[edges[i].source][2]

\* N has the inputs C at slot 0, then A at slot 0, and C at slot 2, none at
\* slot 1: it is run with "c", "a", "c"
C15_Witness ==
    /\ Finished /\ IsOk(ret) /\ self = At.N /\ runs = 1
    /\ Cardinality(DOMAIN nodes) = 5
    /\ Cardinality(InputEdges(At.N)) = 3
    /\ PlainInputs(At.N)
    /\ \E i, j \in InputEdges(At.N) :
          /\ i < j
          /\ edges[i] = Edge(At.C, At.N, DataMap(0))
          /\ edges[j] = Edge(At.A, At.N, DataMap(0))
    /\ \E i \in InputEdges(At.N) : edges[i].weight = DataMap(2)
    /\ args = <<String("c"), String("a"), String("c")>>

-----------------------------------------------------------------------------
(* C16: an edge of the wrong kind for the traversal that meets it is       *)
(* ignored.  An edge is stray for the step of h when every traversal of    *)
(* the step that meets it looks for another kind: into h it is no DataMap, *)
(* into an input source of h it is no DataFlow, out of h it is neither a   *)
(* DataMap nor an ExecutionFlow.  The step on a graph is the step on the   *)
(* graph without its stray edges.                                          *)

Stray(e, h) ==
    /\ e.target = h => ~IsDataMap(e.weight)
    /\ (\E i \in InputEdges(h) : edges[i].source = e.target) => ~IsDataFlow(e.weight)
    /\ e.source = h => ~IsDataMap(e.weight) /\ ~IsExecutionFlow(e.weight)

\* The edges without the stray ones, in their order
Core(h) == SelectSeq(edges, LAMBDA e : ~Stray(e, h))

\* Without its stray edges the graph is a -DataMap(0)-> self -DataMap(0)-> b,
\* self an identity, and it has stray edges
StrayShape(a, b) ==
    /\ WasStore(a) /\ WasStore(b) /\ WasNode(self)
    /\ pre[self][2] \in {"TestSync", "TestAsync"}
    /\ Len(edges) > 2
    /\ Len(Core(self)) = 2
    /\ {Core(self)[1], Core(self)[2]}
           = {Edge(a, self, DataMap(0)), Edge(self, b, DataMap(0))}

-----------------------------------------------------------------------------
(* C17: the node of Llm::new.  Its step asks the backend with the prompt   *)
(* store's value; the backend's response ends in the response store, the   *)
(* prompt store unchanged; the backend's failure is the step's NodeError   *)
(* and the response store keeps its value.                                 *)

\* The graph is exactly i -DataMap(0)-> self -DataMap(0)-> o, self an LlmWeight
LlmShape(i, o) ==
    /\ WasStore(i) /\ WasStore(o) /\ i # o
    /\ self \in DOMAIN pre /\ pre[self] = AsyncNode("LlmWeight")
    /\ Len(edges) = 2
    /\ {edges[1], edges[2]} = {Edge(i, self, DataMap(0)), Edge(self, o, DataMap(0))}

\* C17: after the step the backend has been asked once, with the value the
\* prompt store had; on its answer the step is Ok and only the response store
\* has changed, to the answer; on its failure the step is
\* Err(NodeError(InternalError)) and no store has changed
C17_LlmStep ==
    \A i, o \in DOMAIN pre :
        (Finished /\ LlmShape(i, o)) =>
            /\ runs = 1
            /\ ~IsNone(backend)
            /\ backend[2].prompt = pre[i][2][2]
            /\ IF IsOk(backend[2].generated)
               THEN /\ IsOk(ret)
                    /\ nodes = [pre EXCEPT
                                  ![o] = Store(String(backend[2].generated[2]))]
               ELSE /\ IsErr(ret)
                    /\ ret[2] = NodeError(InternalError)
                    /\ nodes = pre

\* The prompt store of an Llm was set to "p": the backend was asked with "p"
\* and its response "r" is in the response store
C17_Witness ==
    /\ Finished /\ IsOk(ret) /\ LlmShape(1, 2)
    /\ Cardinality(DOMAIN nodes) = 3
    /\ pre[2] = Store(String(""))
    /\ backend = <<"Some", [prompt |-> "p", generated |-> Ok("r")]>>
    /\ nodes[1] = Store(String("p"))
    /\ nodes[2] = Store(String("r"))

-----------------------------------------------------------------------------
(* C18: the phases of one step come in order.  run is invoked at most once, *)
(* and only when every incoming DataMap edge has been resolved to a value; *)
(* a step whose input fails never invokes it; node weights change by       *)
(* mirror refreshes before the invocation and by output writes after run   *)
(* has returned Ok, and at no other time; successors are returned only     *)
(* from the phase that follows the output commit.                          *)

\* C18: the order of input resolution, invocation, output commit and
\* successor enumeration within a step
C18_PhasesInOrder ==
    [][/\ runs' <= 1
       /\ runs' = runs + 1 =>
             /\ pc = "resolve" /\ pending = <<>> /\ runs = 0
             /\ Len(resolved) = Cardinality(InputEdges(self))
       /\ (pc = "resolve" /\ pending # <<>> /\ pc' = "idle") =>
             IsErr(ret') /\ runs' = 0
       /\ nodes' # nodes =>
             \/ pc = "resolve" /\ pending # <<>> /\ runs = 0 /\ runs' = 0
             \/ pc = "commit" /\ runs = 1 /\ IsOk(res)
       /\ (pc # "commit" /\ pc' = "commit") => runs' = 1 /\ IsOk(res')
       /\ (pc # "next" /\ pc' = "next") => pc = "commit" /\ IsNone(ret')
       /\ (pc # "idle" /\ pc' = "idle" /\ IsOk(ret')) => pc = "next"
    ]_vars

\* The LlmWeight node N has read A, refreshed from its mirror, has been
\* run once and has written its result; the successors are still to come
C18_Witness ==
    /\ pc = "next" /\ self = At.N /\ runs = 1
    /\ Cardinality(DOMAIN nodes) = 5
    /\ pre[At.N] = AsyncNode("LlmWeight")
    /\ pre[At.A] = Store(String("a"))
    /\ FlowEdges(At.A) # {}
    /\ args = <<String("b")>>
    /\ IsOk(res)
    /\ IsNone(ret)
    /\ \E i \in OutputEdges(At.N) : nodes[edges[i].target] = Store(String("r"))

-----------------------------------------------------------------------------
(* C19: a step keeps the shape of the graph: the nodes, the edges and each *)
(* node's variant; only the values of Stores change.                       *)

\* C19 as stated: no transition adds or removes a node or an edge or changes
\* the variant of a node, on any graph
C19_VariantsKept ==
    [][/\ edges' = edges
       /\ DOMAIN nodes' = DOMAIN nodes
       /\ \A a \in DOMAIN nodes : nodes'[a][1] = nodes[a][1]
    ]_vars

-----------------------------------------------------------------------------
(* C20: the step does not depend on the enumeration order of the edges.    *)
(* Every order of a graph's edges is an initial state, so the claim is     *)
(* that the step on the edges as enumerated ends as the step on the same   *)
(* edges in one fixed order, the canonical one.                            *)

\* DataMap edges join a Store and a computation node, DataFlow edges two
\* Stores, ExecutionFlow edges two computation nodes
WellKinded ==
    \A i \in 1..Len(edges) :
        LET e == edges[i]
        IN  /\ e.source \in DOMAIN pre /\ e.target \in DOMAIN pre
            /\ IsDataMap(e.weight) =>
                   \/ WasStore(e.source) /\ WasNode(e.target)
                   \/ WasNode(e.source) /\ WasStore(e.target)
            /\ IsDataFlow(e.weight) => WasStore(e.source) /\ WasStore(e.target)
            /\ IsExecutionFlow(e.weight) => WasNode(e.source) /\ WasNode(e.target)

\* The slots into h are distinct, the slots out of h are distinct, and no
\* Store has two DataFlow predecessors
DistinctSlots(h) ==
    /\ \A i, j \in InputEdges(h) : edges[i].weight = edges[j].weight => i = j
    /\ \A i, j \in OutputEdges(h) : edges[i].weight = edges[j].weight => i = j
    /\ \A s \in DOMAIN pre : Cardinality(FlowEdges(s)) <= 1

\* A number that orders the edges of a graph
EdgeKey(e) ==
    e.source * 100 + e.target * 10
        + (IF IsDataMap(e.weight) THEN e.weight[2]
           ELSE IF IsDataFlow(e.weight) THEN 8 ELSE 9)

\* The edges at the positions S, by ascending key
RECURSIVE CanonicalFrom(_)
CanonicalFrom(S) ==
    IF S = {} THEN <<>>
    ELSE LET m == CHOOSE i \in S :
                      \A j \in S : EdgeKey(edges[i]) <= EdgeKey(edges[j])
         IN  <<edges[m]>> \o CanonicalFrom(S \ {m})

Canonical == CanonicalFrom(1..Len(edges))

\* The input phase on the graph g with the edges es: the graph and the
\* resolved pairs after the inputs `inputs`, or the first error
RECURSIVE ResolveAll(_, _, _, _)
ResolveAll(g, es, inputs, done) ==
    IF inputs = <<>> THEN [graph |-> g, result |-> Ok(done)]
    ELSE LET r == ResolveSource(g, es, Head(inputs)[1], Head(inputs)[2])
         IN  IF IsErr(r.result) THEN r
             ELSE ResolveAll(r.graph, es, Tail(inputs), Append(done, r.result[2]))

\* What the step of `self` does on the edges es, from the graph the step
\* started on: the arguments of run, and the node weights at the end, run
\* having returned what it returned
ArgsOn(es) ==
    Values(SortByKey(ResolveAll(pre, es, ReadInputs(es, self), <<>>).result[2]))
NodesOn(es) ==
    LET g == ResolveAll(pre, es, ReadInputs(es, self), <<>>).graph
    IN  IF IsNone(res) THEN g ELSE WriteLoop(g, Outputs(es, self), res[2], 0)

\* The step on the edges as enumerated and the step on the canonical order
\* agree on the arguments and on the final node weights
SameAsCanonical ==
    /\ PastInputs => args = ArgsOn(Canonical)
    /\ Finished => nodes = NodesOn(Canonical)

\* C20 as stated: on a well-kinded graph with distinct slots into and out of
\* the node and at most one DataFlow predecessor per Store, the arguments and
\* the final content of every Store do not depend on the order of the edges
C20_OrderIrrelevant ==
    (WasNode(self) /\ WellKinded /\ DistinctSlots(self)) => SameAsCanonical

\* No DataFlow predecessor of an input source of h is itself refreshed by the
\* step of h
NoChain(h) ==
    \A i \in InputEdges(h) :
        \A j \in FlowEdges(edges[i].source) : Settled(edges[j].source)

\* C20 amended: the same, on graphs where no input source of the node has a
\* DataFlow predecessor that is an input source of the node with a DataFlow
\* predecessor of its own
C20_OrderIrrelevantNoChain ==
    (WasNode(self) /\ WellKinded /\ DistinctSlots(self) /\ NoChain(self))
        => SameAsCanonical

\* A and B are inputs of N and B is the mirror of A; the edges are not in the
\* canonical order; N was run with "b", "b" and A holds "b"
C20_Witness ==
    /\ Finished /\ IsOk(ret) /\ self = At.N
    /\ Cardinality(DOMAIN nodes) = 5
    /\ WellKinded /\ DistinctSlots(At.N) /\ NoChain(At.N)
    /\ edges # Canonical
    /\ \E i \in FlowEdges(At.A) : edges[i].source = At.B
    /\ \E i \in InputEdges(At.N) : edges[i].source = At.B
    /\ pre[At.A] = Store(String("a"))
    /\ args = <<String("b"), String("b")>>
    /\ nodes[At.A] = Store(String("b"))

====
